---- MODULE Spec2Model ----
(***************************************************************************)
(* A model of ai_agent.py: the TelegramPoster dispatcher, the /sendimage   *)
(* command handler and the top-level run_bot routine, together with the    *)
(* parts of the trigger engine (APScheduler) and of the bot application    *)
(* (python-telegram-bot) that the program drives.                          *)
(***************************************************************************)
EXTENDS Integers, Sequences, FiniteSets, TLC

(***************************************************************************)
(* Bounds of the model.                                                    *)
(***************************************************************************)
\* longest scheduled_posts list of a config file
MaxPosts == 2
\* number of instants of the timeline the wall clock walks through
MaxClock == 6
\* number of /sendimage commands the chat platform delivers
MaxCmds == 2
\* cap of the time units the model lets pass while a handler waits
MaxWaited == 11
\* number of coroutines that call the dispatcher's methods directly
MaxCallers == 3

(***************************************************************************)
(* Values.                                                                 *)
(***************************************************************************)
Absent == "absent"

\* datetime.strptime(..., "%Y-%m-%d %H:%M:%S") works on the text of "time". A
\* time text is modelled by its five numeric fields <<Y, m, d, H, M>> (seconds
\* are read and never used), or <<>> for a text that does not have the format
\* (or a post without the key).
GoodTime == <<2024, 1, 15, 9, 30>>
OtherTime == <<2024, 1, 16, 10, 45>>
NoSuchDay == <<2024, 2, 31, 9, 30>>
Garbage == <<>>

TimeTexts == {GoodTime, OtherTime, NoSuchDay, Garbage}
Repeats == {Absent, "once", "daily", "weekly", "monthly", "hourly"}
MediaPaths == {Absent, "pic.jpg"}
Texts == {Absent, "hello"}

\* every post a config file may hold
AllPosts == [time : TimeTexts, repeat : Repeats, media : MediaPaths, text : Texts]

(***************************************************************************)
(* The calendar (datetime) and the recurrence rule (CronTrigger).          *)
(***************************************************************************)
IsLeap(y) == (y % 4 = 0) /\ ((y % 100 # 0) \/ (y % 400 = 0))

DaysInMonth(y, m) ==
    IF m = 2 THEN (IF IsLeap(y) THEN 29 ELSE 28)
    ELSE IF m \in {4, 6, 9, 11} THEN 30 ELSE 31

RECURSIVE DaysBeforeMonth(_, _)
DaysBeforeMonth(y, m) ==
    IF m <= 1 THEN 0 ELSE DaysBeforeMonth(y, m - 1) + DaysInMonth(y, m - 1)

DaysBeforeYear(y) ==
    (y - 1) * 365 + ((y - 1) \div 4) - ((y - 1) \div 100) + ((y - 1) \div 400)

\* date.toordinal()
ToOrdinal(y, m, d) == DaysBeforeYear(y) + DaysBeforeMonth(y, m) + d

\* date.weekday(): Monday is 0, Sunday is 6
Weekday(y, m, d) == (ToOrdinal(y, m, d) + 6) % 7

\* does strptime accept the text?
Parses(t) ==
    /\ Len(t) = 5
    /\ t[1] \in 1..9999
    /\ t[2] \in 1..12
    /\ t[3] \in 1..DaysInMonth(t[1], t[2])
    /\ t[4] \in 0..23
    /\ t[5] \in 0..59

\* the datetime strptime returns for a text it accepts
Strptime(t) ==
    [year |-> t[1], month |-> t[2], day |-> t[3], hour |-> t[4], minute |-> t[5]]

\* A CronTrigger field is <<>> for "*" and <<v>> for the single value v.
Star == <<>>
Only(v) == <<v>>
Matches(field, v) == field = Star \/ field = Only(v)

\* the instants of the wall clock, in order; an instant is a minute mark
\* (second 0: CronTrigger sets every field after the last given one, here
\* second, to its minimum)
Instants ==
    << <<2024, 1, 15, 9, 30>>,
       <<2024, 1, 15, 9, 45>>,
       <<2024, 1, 16, 9, 30>>,
       <<2024, 1, 16, 10, 45>>,
       <<2024, 1, 22, 9, 30>>,
       <<2024, 2, 15, 9, 30>>,
       <<2025, 1, 15, 9, 30>>,
       <<2025, 1, 16, 10, 45>> >>

Horizon == IF MaxClock < Len(Instants) THEN MaxClock ELSE Len(Instants)
Clock == 1..Horizon

\* an instant of the clock as the datetime it is
At(k) == Strptime(Instants[k])

\* CronTrigger(hour=, minute=, **fields): the fields the call does not give and
\* that come before the last given one (minute) are "*"
CronTrigger(fields) ==
    [f \in {"year", "month", "day", "day_of_week", "hour", "minute"} |->
        IF f \in DOMAIN fields THEN Only(fields[f]) ELSE Star]

\* the recurrence rule _setup_scheduler derives from a parsed time and a repeat
TriggerMonthlyAsDaily(post_time, repeat) ==
    LET hm == [hour |-> post_time.hour, minute |-> post_time.minute]
        dow == [day_of_week |-> Weekday(post_time.year, post_time.month, post_time.day)]
        ymd == [year |-> post_time.year, month |-> post_time.month, day |-> post_time.day]
    IN  CronTrigger(hm @@ (IF repeat \in {"daily", "monthly"} THEN <<>>
                           ELSE IF repeat = "weekly" THEN dow
                           ELSE ymd))

TriggerOnceAsMonthly(post_time, repeat) ==
    LET hm == [hour |-> post_time.hour, minute |-> post_time.minute]
        dow == [day_of_week |-> Weekday(post_time.year, post_time.month, post_time.day)]
        dom == [day |-> post_time.day]
    IN  CronTrigger(hm @@ (IF repeat = "daily" THEN <<>>
                           ELSE IF repeat = "weekly" THEN dow
                           ELSE dom))

TriggerFor(post_time, repeat) ==
    LET hm == [hour |-> post_time.hour, minute |-> post_time.minute]
        dow == [day_of_week |-> Weekday(post_time.year, post_time.month, post_time.day)]
        dom == [day |-> post_time.day]
        ymd == [year |-> post_time.year, month |-> post_time.month, day |-> post_time.day]
    IN  CronTrigger(hm @@ (IF repeat = "daily" THEN <<>>
                           ELSE IF repeat = "weekly" THEN dow
                           ELSE IF repeat = "monthly" THEN dom
                           ELSE ymd))

\* does the rule match the datetime t (CronTrigger: every field matches)?
Fires(trigger, t) ==
    /\ Matches(trigger.year, t.year)
    /\ Matches(trigger.month, t.month)
    /\ Matches(trigger.day, t.day)
    /\ Matches(trigger.day_of_week, Weekday(t.year, t.month, t.day))
    /\ Matches(trigger.hour, t.hour)
    /\ Matches(trigger.minute, t.minute)

\* post.get("repeat", "once")
RepeatOf(post) == IF post.repeat = Absent THEN "once" ELSE post.repeat

\* the identifier of the post at position i (from 1) of the list: f"post_{idx}"
JobId(i) == i - 1
JobIds == 0..(MaxPosts - 1)

\* the body of the try block of _setup_scheduler raises (strptime, or the key
\* lookup post["time"])
ScheduleRaises(post) == ~Parses(post.time)

JobOf(i, post) ==
    [id |-> JobId(i),
     trigger |-> TriggerFor(Strptime(post.time), RepeatOf(post)),
     post |-> post]

\* the loop of _setup_scheduler from position i on: acc.jobs are the jobs
\* added, acc.failed the identifiers of the posts logged as failed
RECURSIVE SetupLoop(_, _, _)
SetupLoop(posts, i, acc) ==
    IF i > Len(posts) THEN acc
    ELSE IF ScheduleRaises(posts[i])
         THEN SetupLoop(posts, i + 1, [acc EXCEPT !.failed = @ \cup {JobId(i)}])
         ELSE SetupLoop(posts, i + 1,
                        [acc EXCEPT !.jobs = @ \cup {JobOf(i, posts[i])}])

RECURSIVE SetupLoopAborting(_, _, _)
SetupLoopAborting(posts, i, acc) ==
    IF i > Len(posts) THEN acc
    ELSE IF ScheduleRaises(posts[i])
         THEN [acc EXCEPT !.failed = @ \cup {JobId(i)}]
         ELSE SetupLoopAborting(posts, i + 1,
                        [acc EXCEPT !.jobs = @ \cup {JobOf(i, posts[i])}])

SetupSchedulerAborting(posts) ==
    SetupLoopAborting(posts, 1, [jobs |-> {}, failed |-> {}])

SetupScheduler(posts) == SetupLoop(posts, 1, [jobs |-> {}, failed |-> {}])

\* trigger.get_next_fire_time: the first instant from k on that the rule
\* matches, 0 (None) when there is none
RECURSIVE NextFire(_, _)
NextFire(trigger, k) ==
    IF k > Horizon THEN 0
    ELSE IF Fires(trigger, At(k)) THEN k
    ELSE NextFire(trigger, k + 1)

(***************************************************************************)
(* The config file and its loading.                                        *)
(***************************************************************************)
\* what a path names in the file system when the program looks at it
FsKinds == {"file", "missing", "dir", "unreadable"}

\* the "image_path" value of a config file: no such key, the empty text, a
\* value that is no text (a number, null), or the path of an image
ImageValues == {Absent, "", "nontext", "img.png"}

\* TELEGRAM_CHAT_ID, and the chats a command may come from
ConfiguredChat == "chat_A"
Requesters == {"chat_A", "chat_B"}

\* _validate_image_path: the resolved path when it names a readable regular
\* file, else None; the empty path resolves to the working directory
ValidateImagePath(path, fs) ==
    IF path # "" /\ fs = "file" THEN path ELSE Absent

\* what _load_config returns when the file cannot be read or used; a config
\* says whether it has the key "scheduled_posts" (has_posts)
FallbackConfig == [has_posts |-> TRUE, scheduled_posts |-> <<>>, image_path |-> Absent]

\* _load_config on a config file: file.readable says that open and json.load
\* succeed and give a mapping, file.image_fs is what image_path names
LoadConfig(file) ==
    IF ~file.readable THEN FallbackConfig
    ELSE IF file.image_path = "nontext" THEN FallbackConfig
    ELSE [has_posts |-> file.has_posts,
          scheduled_posts |-> IF file.has_posts THEN file.posts ELSE <<>>,
          image_path |-> ValidateImagePath(
              IF file.image_path = Absent THEN "" ELSE file.image_path,
              file.image_fs)]

\* line 68: self.config.get("scheduled_posts", [])
ScheduledPosts(cfg) == IF cfg.has_posts THEN cfg.scheduled_posts ELSE <<>>

(***************************************************************************)
(* The sends.                                                              *)
(***************************************************************************)
NoCall == [api |-> Absent, chat_id |-> Absent, body |-> Absent, parse_mode |-> Absent]

FixedCaption == "Here's the requested image!"

\* how the HTTP upload ends: status 200, another status, or an exception
HttpOutcomes == {"200", "403", "error"}
\* how bot.send_message ends
SendOutcomes == {"ok", "error"}

\* _send_media on a path that names fs: the upload it issues (NoCall when it
\* issues none) and the line it logs; it catches whatever is raised
SendMediaFallingBackToText(caption, fs, http) ==
    IF fs = "missing"
    THEN [call |-> [api |-> "sendMessage", chat_id |-> ConfiguredChat,
                    body |-> caption, parse_mode |-> "HTML"],
          log |-> "media_not_found"]
    ELSE IF fs # "file" THEN [call |-> NoCall, log |-> "upload_error"]
    ELSE [call |-> [api |-> "sendPhoto", chat_id |-> ConfiguredChat,
                    body |-> caption, parse_mode |-> Absent],
          log |-> CASE http = "200" -> "media_sent"
                    [] http = "403" -> "media_failed"
                    [] OTHER -> "upload_error"]

SendMedia(caption, fs, http) ==
    IF fs = "missing" THEN [call |-> NoCall, log |-> "media_not_found"]
    ELSE IF fs # "file" THEN [call |-> NoCall, log |-> "upload_error"]
    ELSE [call |-> [api |-> "sendPhoto", chat_id |-> ConfiguredChat,
                    body |-> caption, parse_mode |-> Absent],
          log |-> CASE http = "200" -> "media_sent"
                    [] http = "403" -> "media_failed"
                    [] OTHER -> "upload_error"]

\* the call _send_text issues
SendTextCall(text) ==
    [api |-> "sendMessage", chat_id |-> ConfiguredChat, body |-> text,
     parse_mode |-> "HTML"]

\* the try/except of _send_post around a send that raised or did not: what the
\* trigger engine sees of the job
SendPostPropagating(raised) == IF raised THEN "raised" ELSE "returned"

SendPostResult(raised) == "returned"

\* the network calls a send has issued, as a sequence
CallsOf(call) == IF call = NoCall THEN <<>> ELSE <<call>>

\* send_default_image: the reply it sends (Absent for none) and the uploads it
\* issues
SendDefaultImageUnguarded(ready, image, fs, http) ==
    IF image = Absent
    THEN [reply |-> "No default image configured.", calls |-> <<>>]
    ELSE [reply |-> Absent, calls |-> CallsOf(SendMedia(FixedCaption, fs, http).call)]

SendDefaultImage(ready, image, fs, http) ==
    IF ~ready
    THEN [reply |-> "Bot not ready yet.", calls |-> <<>>]
    ELSE IF image = Absent
    THEN [reply |-> "No default image configured.", calls |-> <<>>]
    ELSE [reply |-> Absent, calls |-> CallsOf(SendMedia(FixedCaption, fs, http).call)]

\* asyncio.wait_for(poster.wait_until_ready(), timeout=10.0) after `waited`
\* time units
WAIT_TIMEOUT == 10

WaitForWithoutTimeout(ready, waited) == IF ready THEN "ready" ELSE "pending"

WaitFor(ready, waited) ==
    IF ready THEN "ready"
    ELSE IF waited >= WAIT_TIMEOUT THEN "timeout"
    ELSE "pending"

(***************************************************************************)
(* The state.                                                              *)
(***************************************************************************)
VARIABLES
    token,        \* TELEGRAM_BOT_TOKEN: "none" (unset), "bad" (refused) or "good"
    cfgFile,      \* config.json as it is on disk at process start
    budget,       \* the commands the chat platform has yet to deliver
    now,          \* the wall clock: an index of Instants
    pc,           \* where run_bot is
    exc,          \* the exception run_bot's finally block will re-raise
    failure,      \* why run_bot left its try block
    result,       \* how run_bot ended
    mainLog,      \* what __main__ logged after asyncio.run
    app,          \* the Application: none, built, initialized, running, stopped, shut
    polling,      \* application.updater.running
    poster,       \* the TelegramPoster exists
    bot,          \* poster.bot is set
    config,       \* poster.config
    is_ready,     \* poster._is_ready
    confirmed,    \* bot.get_me() has answered
    jobs,         \* the jobs of poster.scheduler
    schedLog,     \* identifiers of the posts logged "Failed to schedule post"
    running,      \* poster.scheduler.running
    startedAt,    \* the instant of scheduler.start(), 0 before it
    nrt,          \* next_run_time of each job, 0 for None
    runs,         \* per job, the latest run of _send_post the engine began
    queue,        \* the chats of the commands not yet handled
    handler,      \* command_send_image: where it is, for whom, how long it waits
    lastCmd,      \* the latest command_send_image that ended
    callers       \* per caller of the dispatcher's methods, its latest call

envVars == <<token, cfgFile, budget>>
runVars == <<pc, exc, failure, result, mainLog>>
appVars == <<app, polling>>
posterVars == <<poster, bot, config, is_ready, confirmed>>
schedVars == <<jobs, schedLog, running, startedAt, nrt, runs>>
cmdVars == <<queue, handler, lastCmd>>
vars == <<envVars, now, runVars, appVars, posterVars, schedVars, cmdVars, callers>>

IdleHandler == [pc |-> "idle", chat |-> Absent, waited |-> 0]

NoCmd ==
    [chat |-> Absent, how |-> Absent, ready |-> FALSE, image |-> Absent,
     fs |-> Absent, reply |-> Absent, calls |-> <<>>]

\* a run of _send_post: the network calls it has issued, where it is
\* (suspended in bot.send_message, returned, raised to the engine, or
\* cancelled), the line it logged and what _send_media found its path to
\* name (Absent when the run did not get to _send_media)
NoRun == [calls |-> <<>>, state |-> Absent, log |-> Absent, fs |-> Absent]

\* the jobs whose coroutine is suspended in bot.send_message
Inflight == {j \in JobIds : runs[j].state = "suspended"}

\* the engine cancels the coroutines still suspended
CancelRuns ==
    [j \in JobIds |-> IF runs[j].state = "suspended"
                      THEN [runs[j] EXCEPT !.state = "cancelled"]
                      ELSE runs[j]]

\* the coroutines that call the dispatcher's methods directly
Callers == 1..MaxCallers

\* a caller: the method it called last (Absent before its first call), where
\* that call is (suspended in the wait of the event, released by its set,
\* returned, raised) and the error it raised
NotCalling == [op |-> Absent, state |-> Absent, error |-> Absent]
Returned(method) == [op |-> method, state |-> "returned", error |-> Absent]
Raised(method, e) == [op |-> method, state |-> "raised", error |-> e]
Suspended(method) == [op |-> method, state |-> "suspended", error |-> Absent]

\* asyncio.Event.set(): the future of every coroutine waiting on the event
\* gets its result
EventSetWakingOne(waiting) ==
    LET suspended == {c \in Callers : waiting[c].state = "suspended"}
    IN  IF suspended = {} THEN waiting
        ELSE [waiting EXCEPT ![CHOOSE c \in suspended : TRUE].state = "released"]

EventSet(waiting) ==
    [c \in Callers |-> IF waiting[c].state = "suspended"
                       THEN [waiting[c] EXCEPT !.state = "released"]
                       ELSE waiting[c]]

\* the sequences over S of length at most n
RECURSIVE SeqsUpTo(_, _)
SeqsUpTo(S, n) ==
    IF n = 0 THEN {<<>>}
    ELSE LET shorter == SeqsUpTo(S, n - 1)
         IN  shorter \cup {Append(q, x) : q \in {r \in shorter : Len(r) = n - 1}, x \in S}

ConfigFile(readable, has_posts, posts, image_path, image_fs) ==
    [readable |-> readable, has_posts |-> has_posts, posts |-> posts,
     image_path |-> image_path, image_fs |-> image_fs]

\* the state of every process at its start, for a given environment
Start(tok, file, k, cmds) ==
    /\ token = tok
    /\ cfgFile = file
    /\ budget = cmds
    /\ now = k
    /\ pc = "build"
    /\ exc = "none"
    /\ failure = "none"
    /\ result = Absent
    /\ mainLog = Absent
    /\ app = "none"
    /\ polling = FALSE
    /\ poster = FALSE
    /\ bot = FALSE
    /\ config = FallbackConfig
    /\ is_ready = FALSE
    /\ confirmed = FALSE
    /\ jobs = {}
    /\ schedLog = {}
    /\ running = FALSE
    /\ startedAt = 0
    /\ nrt = [j \in JobIds |-> 0]
    /\ runs = [j \in JobIds |-> NoRun]
    /\ queue = <<>>
    /\ handler = IdleHandler
    /\ lastCmd = NoCmd
    /\ callers = [c \in Callers |-> NotCalling]

(***************************************************************************)
(* run_bot.                                                                *)
(***************************************************************************)
\* `except Exception`: an error is logged and dropped, a cancellation
\* (CancelledError is no Exception) goes on to the caller
ExceptClause(e) == IF e = "error" THEN "none" ELSE e

\* run_bot leaves its try block at `where` with e, through except and into finally
Leave(where, e) ==
    /\ pc' = "finally"
    /\ failure' = where
    /\ exc' = ExceptClause(e)
    /\ UNCHANGED <<result, mainLog>>

\* run_bot goes on to the statement at `next`
Goto(next) ==
    /\ pc' = next
    /\ UNCHANGED <<exc, failure, result, mainLog>>

\* lines 154-158: Application.builder().token(...).build() raises without a
\* token; then the poster is constructed, bound to the bot and attached
RunBuildConfigFatal ==
    /\ pc = "build"
    /\ IF token = "none"
       THEN /\ Leave("build", "error")
            /\ UNCHANGED <<appVars, posterVars>>
       ELSE IF ~cfgFile.readable
       THEN /\ Leave("build", "error")
            /\ app' = "built"
            /\ UNCHANGED <<polling, posterVars>>
       ELSE /\ Goto("app_init")
            /\ app' = "built"
            /\ poster' = TRUE
            /\ bot' = TRUE
            /\ config' = LoadConfig(cfgFile)
            /\ is_ready' = FALSE
            /\ UNCHANGED <<polling, confirmed>>
    /\ UNCHANGED <<envVars, callers, now, schedVars, cmdVars>>

RunBuild ==
    /\ pc = "build"
    /\ IF token = "none"
       THEN /\ Leave("build", "error")
            /\ UNCHANGED <<appVars, posterVars>>
       ELSE /\ Goto("app_init")
            /\ app' = "built"
            /\ poster' = TRUE
            /\ bot' = TRUE
            /\ config' = LoadConfig(cfgFile)
            /\ is_ready' = FALSE
            /\ UNCHANGED <<polling, confirmed>>
    /\ UNCHANGED <<envVars, callers, now, schedVars, cmdVars>>

\* line 159: application.initialize() asks the platform who the bot is; a
\* refused token or the network makes it raise
AppInitialize ==
    /\ pc = "app_init"
    /\ \/ /\ token = "good"
          /\ app' = "initialized"
          /\ Goto("app_start")
       \/ /\ Leave("app_init", "error")
          /\ UNCHANGED app
    /\ UNCHANGED <<envVars, callers, now, polling, posterVars, schedVars, cmdVars>>

\* line 160: application.start()
AppStart ==
    /\ pc = "app_start"
    /\ app' = "running"
    /\ Goto("poster_init")
    /\ UNCHANGED <<envVars, callers, now, polling, posterVars, schedVars, cmdVars>>

\* lines 161, 58-65: poster.initialize() when get_me answers
PosterInitializeWithoutStart ==
    /\ pc = "poster_init"
    /\ bot
    /\ LET setup == SetupScheduler(ScheduledPosts(config))
       IN  /\ confirmed' = TRUE
           /\ jobs' = setup.jobs
           /\ schedLog' = setup.failed
           /\ is_ready' = TRUE
           /\ callers' = EventSet(callers)
    /\ Goto("start_polling")
    /\ UNCHANGED <<envVars, now, appVars, poster, bot, config, running, startedAt,
                   nrt, runs, cmdVars>>

\* lines 61-65: initialize() once get_me has answered, on an engine that is
\* not running: the posts are registered, the engine is started (it computes
\* the next run time of every job) and the event is set
Initialize ==
    LET setup == SetupScheduler(ScheduledPosts(config))
    IN  /\ confirmed' = TRUE
        /\ jobs' = setup.jobs
        /\ schedLog' = setup.failed
        /\ running' = TRUE
        /\ startedAt' = now
        /\ nrt' = [j \in JobIds |->
                     IF \E job \in setup.jobs : job.id = j
                     THEN NextFire((CHOOSE job \in setup.jobs : job.id = j).trigger, now)
                     ELSE 0]
        /\ is_ready' = TRUE

PosterInitializeWithoutDefault ==
    /\ pc = "poster_init"
    /\ bot
    /\ IF ~config.has_posts
       THEN /\ confirmed' = TRUE
            /\ Leave("setup", "error")
            /\ UNCHANGED <<jobs, schedLog, running, startedAt, nrt, is_ready, callers>>
       ELSE /\ Initialize
            /\ callers' = EventSet(callers)
            /\ Goto("start_polling")
    /\ UNCHANGED <<envVars, now, appVars, poster, bot, config, runs, cmdVars>>

PosterInitialize ==
    /\ pc = "poster_init"
    /\ bot
    /\ Initialize
    /\ callers' = EventSet(callers)
    /\ Goto("start_polling")
    /\ UNCHANGED <<envVars, now, appVars, poster, bot, config, runs, cmdVars>>

\* lines 161, 59-61: poster.initialize() raises: no bot is set, or get_me fails
PosterInitializeFails ==
    /\ pc = "poster_init"
    /\ Leave(IF bot THEN "get_me" ELSE "no_bot", "error")
    /\ UNCHANGED <<envVars, callers, now, appVars, posterVars, schedVars, cmdVars>>

\* line 162: application.updater.start_polling()
StartPolling ==
    /\ pc = "start_polling"
    /\ \/ /\ polling' = TRUE
          /\ Goto("loop")
       \/ /\ Leave("start_polling", "error")
          /\ UNCHANGED polling
    /\ UNCHANGED <<envVars, callers, now, app, posterVars, schedVars, cmdVars>>

\* the awaits of the try block, where a cancellation of run_bot arrives
AwaitPoints == {"app_init", "app_start", "poster_init", "start_polling", "loop"}

\* the task of run_bot is cancelled (Ctrl-C): CancelledError at its await
Cancel ==
    /\ pc \in AwaitPoints
    /\ Leave("cancelled", "cancelled")
    /\ UNCHANGED <<envVars, callers, now, appVars, posterVars, schedVars, cmdVars>>

\* lines 130-134: poster.shutdown(); the engine's shutdown cancels the job
\* coroutines still suspended and empties its job store
ShutdownKeepingReady ==
    /\ IF running
       THEN /\ running' = FALSE
            /\ runs' = CancelRuns
            /\ jobs' = {}
            /\ nrt' = [j \in JobIds |-> 0]
       ELSE UNCHANGED <<running, runs, jobs, nrt>>
    /\ UNCHANGED is_ready
    /\ UNCHANGED <<schedLog, startedAt, poster, bot, config, confirmed>>

ShutdownAwaitingJobs ==
    /\ IF running
       THEN /\ running' = FALSE
            /\ jobs' = {}
            /\ nrt' = [j \in JobIds |-> 0]
            /\ UNCHANGED runs
       ELSE UNCHANGED <<running, runs, jobs, nrt>>
    /\ is_ready' = FALSE
    /\ UNCHANGED <<schedLog, startedAt, poster, bot, config, confirmed>>

ShutdownLeavingEngine ==
    /\ is_ready' = FALSE
    /\ UNCHANGED <<running, runs, jobs, nrt>>
    /\ UNCHANGED <<schedLog, startedAt, poster, bot, config, confirmed>>

Shutdown ==
    /\ IF running
       THEN /\ running' = FALSE
            /\ runs' = CancelRuns
            /\ jobs' = {}
            /\ nrt' = [j \in JobIds |-> 0]
       ELSE UNCHANGED <<running, runs, jobs, nrt>>
    /\ is_ready' = FALSE
    /\ UNCHANGED <<schedLog, startedAt, poster, bot, config, confirmed>>

\* how run_bot ends when its finally block ends without raising
Outcome == IF exc = "cancelled" THEN "cancelled" ELSE "returned"

\* lines 168-172: the finally block up to its first await
FinallyPosterRestarting ==
    /\ pc = "finally"
    /\ IF poster THEN Shutdown ELSE UNCHANGED <<posterVars, schedVars>>
    /\ IF app = "none"
       THEN /\ pc' = "done"
            /\ result' = Outcome
       ELSE /\ pc' = IF app = "running" /\ failure = "start_polling"
                     THEN "poster_init"
                     ELSE IF polling THEN "fin_updater" ELSE "fin_app_stop"
            /\ UNCHANGED result
    /\ UNCHANGED <<exc, failure, mainLog>>
    /\ UNCHANGED <<envVars, callers, now, appVars, cmdVars>>

FinallyPoster ==
    /\ pc = "finally"
    /\ IF poster THEN Shutdown ELSE UNCHANGED <<posterVars, schedVars>>
    /\ IF app = "none"
       THEN /\ pc' = "done"
            /\ result' = Outcome
       ELSE /\ pc' = IF polling THEN "fin_updater" ELSE "fin_app_stop"
            /\ UNCHANGED result
    /\ UNCHANGED <<exc, failure, mainLog>>
    /\ UNCHANGED <<envVars, callers, now, appVars, cmdVars>>

\* line 173: application.updater.stop()
FinallyUpdaterStop ==
    /\ pc = "fin_updater"
    /\ polling' = FALSE
    /\ Goto("fin_app_stop")
    /\ UNCHANGED <<envVars, callers, now, app, posterVars, schedVars, cmdVars>>

\* line 174: application.stop() raises RuntimeError when the application is
\* not running; else it returns once the updates received are handled
FinallyAppStop ==
    /\ pc = "fin_app_stop"
    /\ IF app # "running"
       THEN /\ pc' = "done"
            /\ result' = "raised"
            /\ UNCHANGED <<app, exc, failure, mainLog>>
       ELSE /\ queue = <<>>
            /\ handler.pc = "idle"
            /\ app' = "stopped"
            /\ Goto("fin_app_shutdown")
    /\ UNCHANGED <<envVars, callers, now, polling, posterVars, schedVars, cmdVars>>

\* lines 175-176: application.shutdown(), and run_bot ends
FinallyAppShutdown ==
    /\ pc = "fin_app_shutdown"
    /\ app' = "shut"
    /\ pc' = "done"
    /\ result' = Outcome
    /\ UNCHANGED <<exc, failure, mainLog>>
    /\ UNCHANGED <<envVars, callers, now, polling, posterVars, schedVars, cmdVars>>

\* lines 178-184: asyncio.run(run_bot()) ends, the event loop closes and
\* cancels what is left on it
MainExit ==
    /\ pc = "done"
    /\ pc' = "exited"
    /\ mainLog' \in (CASE result = "raised" /\ exc = "cancelled" ->
                              {"Startup failed", "Bot stopped by user"}
                       [] result = "raised" -> {"Startup failed"}
                       [] result = "cancelled" -> {"Bot stopped by user"}
                       [] OTHER -> {Absent})
    /\ runs' = CancelRuns
    /\ UNCHANGED <<exc, failure, result>>
    /\ UNCHANGED <<envVars, callers, now, appVars, posterVars, jobs, schedLog, running,
                   startedAt, nrt, cmdVars>>

(***************************************************************************)
(* The trigger engine and the dispatch of a post.                          *)
(***************************************************************************)
JobWithId(j) == CHOOSE job \in jobs : job.id = j

\* _send_post on a post whose media path names fs, up to its end or to the
\* await of bot.send_message: the calls issued, whether the coroutine is now
\* suspended, whether an exception reached the except clause, the line logged
SendPostTextAfterMedia(post, fs, http) ==
    IF post.text = Absent
    THEN [calls |-> <<>>, suspended |-> FALSE, raised |-> TRUE,
          log |-> "send_post_error", fs |-> Absent]
    ELSE IF post.media # Absent
    THEN LET r == SendMedia(post.text, fs, http)
         IN  [calls |-> CallsOf(r.call) \o <<SendTextCall(post.text)>>,
              suspended |-> TRUE, raised |-> FALSE, log |-> r.log, fs |-> fs]
    ELSE [calls |-> <<SendTextCall(post.text)>>, suspended |-> TRUE,
          raised |-> FALSE, log |-> Absent, fs |-> Absent]

SendPost(post, fs, http) ==
    IF post.text = Absent
    THEN [calls |-> <<>>, suspended |-> FALSE, raised |-> TRUE,
          log |-> "send_post_error", fs |-> Absent]
    ELSE IF post.media # Absent
    THEN LET r == SendMedia(post.text, fs, http)
         IN  [calls |-> CallsOf(r.call),
              suspended |-> FALSE, raised |-> FALSE, log |-> r.log, fs |-> fs]
    ELSE [calls |-> <<SendTextCall(post.text)>>, suspended |-> TRUE,
          raised |-> FALSE, log |-> Absent, fs |-> Absent]

\* what a send may find its media path to name, and how its upload may end:
\* the file system is looked at only when there is a path, the upload is made
\* only for a readable file
FsSeen(media) == IF media = Absent THEN {"missing"} ELSE FsKinds
HttpSeen(media, fs) == IF media # Absent /\ fs = "file" THEN HttpOutcomes ELSE {"200"}

\* the wall clock moves on to the next instant
Tick ==
    /\ running
    /\ now < Horizon
    /\ now' = now + 1
    /\ UNCHANGED <<envVars, callers, runVars, appVars, posterVars, schedVars, cmdVars>>

\* the engine wakes up for job j, which is due. Its run time is the latest
\* instant its rule matches (coalesce); it is run when that is now, not when
\* the wake-up is late (misfire_grace_time) or while its previous run has
\* not ended (max_instances). A run goes on to its end, or to the await of
\* bot.send_message.
ProcessJob(j) ==
    /\ running
    /\ nrt[j] # 0
    /\ nrt[j] <= now
    /\ LET job == JobWithId(j)
       IN  /\ nrt' = [nrt EXCEPT ![j] = NextFire(job.trigger, now + 1)]
           /\ IF Fires(job.trigger, At(now)) /\ j \notin Inflight
              THEN \E fs \in FsSeen(job.post.media) :
                   \E http \in HttpSeen(job.post.media, fs) :
                     LET r == SendPost(job.post, fs, http)
                     IN  runs' = [runs EXCEPT ![j] =
                                    [calls |-> r.calls,
                                     state |-> IF r.suspended THEN "suspended"
                                               ELSE SendPostResult(r.raised),
                                     log |-> r.log,
                                     fs |-> r.fs]]
              ELSE UNCHANGED runs
    /\ UNCHANGED <<envVars, callers, now, runVars, appVars, posterVars, jobs, schedLog,
                   running, startedAt, cmdVars>>

\* bot.send_message of job j's run answers or raises, and _send_post ends
DispatchTextDone(j) ==
    /\ j \in Inflight
    /\ \E outcome \in SendOutcomes :
         runs' = [runs EXCEPT ![j].state = SendPostResult(outcome = "error"),
                              ![j].log = IF outcome = "error" THEN "send_post_error"
                                         ELSE "text_sent"]
    /\ UNCHANGED <<envVars, callers, now, runVars, appVars, posterVars, jobs, schedLog,
                   running, startedAt, nrt, cmdVars>>

(***************************************************************************)
(* The /sendimage command.                                                 *)
(***************************************************************************)
\* the updater, polling, receives a command from a chat
ReceiveCommand ==
    /\ polling
    /\ budget > 0
    /\ budget' = budget - 1
    /\ \E chat \in Requesters : queue' = Append(queue, chat)
    /\ UNCHANGED <<token, cfgFile, callers, now, runVars, appVars, posterVars, schedVars,
                   handler, lastCmd>>

\* lines 137-142: the application hands the next command to command_send_image,
\* one at a time; the poster is attached, so the handler goes to wait_for
CommandStart ==
    /\ app = "running"
    /\ handler.pc = "idle"
    /\ queue # <<>>
    /\ handler' = [pc |-> "waiting", chat |-> Head(queue), waited |-> 0]
    /\ queue' = Tail(queue)
    /\ UNCHANGED <<envVars, callers, now, runVars, appVars, posterVars, schedVars,
                   lastCmd>>

\* a time unit passes for the handler waiting in wait_for
TimerTick ==
    /\ handler.pc = "waiting"
    /\ WaitFor(is_ready, handler.waited) = "pending"
    /\ handler.waited < MaxWaited
    /\ handler' = [handler EXCEPT !.waited = @ + 1]
    /\ UNCHANGED <<envVars, callers, now, runVars, appVars, posterVars, schedVars,
                   queue, lastCmd>>

\* line 142: wait_until_ready() ends, wait_for is about to return
CommandWaitDone ==
    /\ handler.pc = "waiting"
    /\ WaitFor(is_ready, handler.waited) = "ready"
    /\ handler' = [handler EXCEPT !.pc = "resumed"]
    /\ UNCHANGED <<envVars, callers, now, runVars, appVars, posterVars, schedVars,
                   queue, lastCmd>>

\* lines 144-145: wait_for times out, the handler replies and ends
CommandTimeout ==
    /\ handler.pc = "waiting"
    /\ WaitFor(is_ready, handler.waited) = "timeout"
    /\ lastCmd' = [NoCmd EXCEPT !.chat = handler.chat, !.how = "timeout",
                                !.ready = is_ready,
                                !.reply = "Bot initializing, try again soon."]
    /\ handler' = IdleHandler
    /\ UNCHANGED <<envVars, callers, now, runVars, appVars, posterVars, schedVars,
                   queue>>

\* lines 143, 117-125: send_default_image for the requester, and the handler ends
CommandSendDefaultImage ==
    /\ handler.pc = "resumed"
    /\ \E fs \in FsSeen(config.image_path) :
       \E http \in HttpSeen(config.image_path, fs) :
         LET r == SendDefaultImage(is_ready, config.image_path, fs, http)
         IN  lastCmd' = [chat |-> handler.chat, how |-> "send_default_image",
                         ready |-> is_ready, image |-> config.image_path,
                         fs |-> fs, reply |-> r.reply, calls |-> r.calls]
    /\ handler' = IdleHandler
    /\ UNCHANGED <<envVars, callers, now, runVars, appVars, posterVars, schedVars,
                   queue>>

(***************************************************************************)
(* The dispatcher under callers of its methods.                            *)
(***************************************************************************)
\* the state after TelegramPoster() alone: the config is loaded, the event is
\* clear, no bot is attached and no run_bot is there
Constructed(file, k) ==
    /\ token = "good"
    /\ cfgFile = file
    /\ budget = 0
    /\ now = k
    /\ pc = "caller"
    /\ exc = "none"
    /\ failure = "none"
    /\ result = Absent
    /\ mainLog = Absent
    /\ app = "none"
    /\ polling = FALSE
    /\ poster = TRUE
    /\ bot = FALSE
    /\ config = LoadConfig(file)
    /\ is_ready = FALSE
    /\ confirmed = FALSE
    /\ jobs = {}
    /\ schedLog = {}
    /\ running = FALSE
    /\ startedAt = 0
    /\ nrt = [j \in JobIds |-> 0]
    /\ runs = [j \in JobIds |-> NoRun]
    /\ queue = <<>>
    /\ handler = IdleHandler
    /\ lastCmd = NoCmd
    /\ callers = [c \in Callers |-> NotCalling]

\* the previous call of the caller has ended
CanCall(c) == callers[c].state \notin {"suspended", "released"}

\* lines 34-35: set_bot
SetBot ==
    /\ pc = "caller"
    /\ poster
    /\ ~bot
    /\ bot' = TRUE
    /\ UNCHANGED <<poster, config, is_ready, confirmed>>
    /\ UNCHANGED <<envVars, callers, now, runVars, appVars, schedVars, cmdVars>>

\* lines 59-61: the error initialize() raises before it registers anything,
\* Absent for none: the check of the bot comes first, then the round trip
InitializeFailureUnchecked(hasBot, answered) ==
    IF ~hasBot THEN "'NoneType' object has no attribute 'get_me'"
    ELSE IF ~answered THEN "get_me failed"
    ELSE Absent

InitializeFailure(hasBot, answered) ==
    IF ~hasBot THEN "Bot instance not set"
    ELSE IF ~answered THEN "get_me failed"
    ELSE Absent

\* lines 58-65: a caller awaits initialize(); the callers of this model call
\* it until the engine has been started once
CallInitialize(c) ==
    /\ pc = "caller"
    /\ CanCall(c)
    /\ startedAt = 0
    /\ \E answered \in BOOLEAN :
         LET e == InitializeFailure(bot, answered)
         IN  IF e # Absent
             THEN /\ callers' = [callers EXCEPT ![c] = Raised("initialize", e)]
                  /\ UNCHANGED <<posterVars, schedVars>>
             ELSE /\ Initialize
                  /\ callers' = [EventSet(callers) EXCEPT ![c] = Returned("initialize")]
                  /\ UNCHANGED <<poster, bot, config, runs>>
    /\ UNCHANGED <<envVars, now, runVars, appVars, cmdVars>>

\* lines 130-134: a caller awaits shutdown(); no await is in its body
CallShutdown(c) ==
    /\ pc = "caller"
    /\ CanCall(c)
    /\ Shutdown
    /\ callers' = [callers EXCEPT ![c] = Returned("shutdown")]
    /\ UNCHANGED <<envVars, now, runVars, appVars, cmdVars>>

\* lines 127-128: a caller awaits wait_until_ready(); Event.wait() returns at
\* once when the event is set, else the caller is suspended on a future
CallWaitUntilReady(c) ==
    /\ pc = "caller"
    /\ CanCall(c)
    /\ callers' = [callers EXCEPT ![c] = IF is_ready
                                         THEN Returned("wait_until_ready")
                                         ELSE Suspended("wait_until_ready")]
    /\ UNCHANGED <<envVars, now, runVars, appVars, posterVars, schedVars, cmdVars>>

\* line 128: the event loop runs a caller whose future has its result, and
\* wait_until_ready() returns
WaitUntilReadyReturns(c) ==
    /\ callers[c].state = "released"
    /\ callers' = [callers EXCEPT ![c] = Returned("wait_until_ready")]
    /\ UNCHANGED <<envVars, now, runVars, appVars, posterVars, schedVars, cmdVars>>

(***************************************************************************)
(* The specifications.                                                     *)
(***************************************************************************)
Tokens == {"none", "bad", "good"}

TextDaily == [time |-> GoodTime, repeat |-> "daily", media |-> Absent, text |-> "hello"]
MediaOnce == [time |-> OtherTime, repeat |-> "once", media |-> "pic.jpg", text |-> "hello"]
TextHourly == [time |-> GoodTime, repeat |-> "hourly", media |-> Absent, text |-> "hello"]
NoText == [time |-> GoodTime, repeat |-> Absent, media |-> Absent, text |-> Absent]
BadTime == [time |-> Garbage, repeat |-> "daily", media |-> Absent, text |-> "hello"]

\* the posts of the runs that follow the trigger engine
EnginePosts == {TextDaily, MediaOnce, TextHourly, NoText, BadTime}

\* the process starts at the first instant of the timeline or after it, with
\* any list of these posts
Init ==
    \E tok \in Tokens, k \in {1, 2}, posts \in SeqsUpTo(EnginePosts, MaxPosts) :
        Start(tok, ConfigFile(TRUE, TRUE, posts, Absent, "dir"), k, 0)

RunBot ==
    \/ RunBuild
    \/ AppInitialize
    \/ AppStart
    \/ PosterInitialize
    \/ PosterInitializeFails
    \/ StartPolling
    \/ Cancel
    \/ FinallyPoster
    \/ FinallyUpdaterStop
    \/ FinallyAppStop
    \/ FinallyAppShutdown
    \/ MainExit

Engine ==
    \/ Tick
    \/ \E j \in JobIds : ProcessJob(j)
    \/ \E j \in JobIds : DispatchTextDone(j)

Commands ==
    \/ ReceiveCommand
    \/ CommandStart
    \/ TimerTick
    \/ CommandWaitDone
    \/ CommandTimeout
    \/ CommandSendDefaultImage

Next == RunBot \/ Engine

\* the program with its trigger engine, no command arriving
Spec == Init /\ [][Next]_vars

\* the config files of the runs with commands
CommandFiles ==
    {ConfigFile(TRUE, TRUE, <<>>, image[1], image[2]) :
        image \in {<<Absent, "dir">>, <<"img.png", "file">>, <<"img.png", "missing">>}}
    \cup {ConfigFile(FALSE, FALSE, <<>>, Absent, "dir")}

InitCommands ==
    \E tok \in Tokens, file \in CommandFiles : Start(tok, file, 1, MaxCmds)

NextCommands == RunBot \/ Commands

\* the program with the commands of the chat platform, no post scheduled
SpecCommands == InitCommands /\ [][NextCommands]_vars

\* every list of posts a config file may hold, up to media and text
StartupPosts == {p \in AllPosts : p.media = Absent /\ p.text = "hello"}

InitStartup ==
    \E posts \in SeqsUpTo(StartupPosts, MaxPosts) :
        Start("good", ConfigFile(TRUE, TRUE, posts, Absent, "dir"), 1, 0)

NextStartup ==
    RunBuild \/ AppInitialize \/ AppStart \/ PosterInitialize \/ PosterInitializeFails

\* the start of the program up to the end of poster.initialize()
SpecStartup == InitStartup /\ [][NextStartup]_vars

\* the event loop runs a handler that can go on, and its timers expire
SpecCommandsFair ==
    /\ SpecCommands
    /\ WF_vars(TimerTick)
    /\ WF_vars(CommandWaitDone)
    /\ WF_vars(CommandTimeout)

\* the config files of the runs that follow the loading: every shape of the
\* file, of its post list and of its image_path
LoadPosts == {TextDaily, BadTime}

LoadFiles ==
    {ConfigFile(TRUE, TRUE, posts, image, fs) :
        posts \in SeqsUpTo(LoadPosts, MaxPosts), image \in ImageValues, fs \in FsKinds}
    \cup {ConfigFile(TRUE, FALSE, <<>>, image, fs) :
        image \in ImageValues, fs \in FsKinds}
    \cup {ConfigFile(FALSE, FALSE, <<>>, Absent, "missing")}

InitLoad == \E file \in LoadFiles : Start("good", file, 1, 0)

\* the start of the program up to the end of poster.initialize(), for every
\* config file
SpecLoad == InitLoad /\ [][NextStartup]_vars

\* the posts of the runs that drive the dispatcher directly
PosterPosts == {TextDaily, MediaOnce}

InitPoster ==
    \E posts \in SeqsUpTo(PosterPosts, 1) :
        Constructed(ConfigFile(TRUE, TRUE, posts, Absent, "dir"), 1)

Calls ==
    \/ SetBot
    \/ \E c \in Callers : CallInitialize(c)
    \/ \E c \in Callers : CallShutdown(c)
    \/ \E c \in Callers : CallWaitUntilReady(c)
    \/ \E c \in Callers : WaitUntilReadyReturns(c)

NextPoster == Calls \/ Engine

\* a dispatcher constructed on its own, its methods called in any order by
\* any of the callers, with its trigger engine
SpecPoster == InitPoster /\ [][NextPoster]_vars

\* the event loop runs a caller whose future has its result
SpecPosterFair ==
    /\ SpecPoster
    /\ \A c \in Callers : WF_vars(WaitUntilReadyReturns(c))

\* the config file of the runs with posts and commands together
InitAll ==
    \E tok \in Tokens, posts \in SeqsUpTo(PosterPosts, 1) :
        Start(tok, ConfigFile(TRUE, TRUE, posts, "img.png", "file"), 1, MaxCmds)

NextAll == RunBot \/ Engine \/ Commands

\* the program with its trigger engine and the commands of the chat platform
\* on one event loop
SpecAll == InitAll /\ [][NextAll]_vars

(***************************************************************************)
(* The properties.                                                         *)
(***************************************************************************)
\* the identifiers of the posts of the loaded config, by position in the file
PostIds == {i - 1 : i \in 1..Len(ScheduledPosts(config))}

PostWithId(j) == ScheduledPosts(config)[j + 1]

\* C1, first part: the readiness signal is false when the dispatcher is
\* constructed, and whenever it is true, initialize() has confirmed the bot
\* identity, has tried to register every configured post (each is a job or a
\* logged failure) and has started the trigger engine.
ReadyMeansInitialized ==
    /\ (pc \in {"build", "app_init"} => ~is_ready)
    /\ (is_ready =>
          /\ poster
          /\ confirmed
          /\ {job.id : job \in jobs} \cup schedLog = PostIds
          /\ startedAt # 0
          /\ running)

\* C1: the readiness signal is false at construction, true only after
\* initialize() did all its work, and only initialize() ever sets it.
C1_ReadinessSetOnlyByInitialize ==
    /\ []ReadyMeansInitialized
    /\ [][(~is_ready /\ is_ready') => (pc = "poster_init" /\ pc' = "start_polling")]_vars

C1_Witness == is_ready /\ polling /\ jobs # {} /\ schedLog # {}

\* C2: send_default_image replies "not ready" and sends nothing when the
\* signal is false; replies "no default image" and sends nothing when it is
\* true and no image is configured; and issues exactly one photo upload, with
\* the fixed caption, when it is true and the configured image is there.
C2_SendDefaultImageCases ==
    lastCmd.how = "send_default_image" =>
        /\ (~lastCmd.ready =>
               lastCmd.reply = "Bot not ready yet." /\ lastCmd.calls = <<>>)
        /\ (lastCmd.ready /\ lastCmd.image = Absent =>
               lastCmd.reply = "No default image configured." /\ lastCmd.calls = <<>>)
        /\ (lastCmd.ready /\ lastCmd.image # Absent /\ lastCmd.fs = "file" =>
               /\ Len(lastCmd.calls) = 1
               /\ lastCmd.calls[1].api = "sendPhoto"
               /\ lastCmd.calls[1].body = "Here's the requested image!"
               /\ lastCmd.reply = Absent)

C2_Witness ==
    /\ lastCmd.how = "send_default_image"
    /\ lastCmd.ready
    /\ lastCmd.image = "img.png"
    /\ lastCmd.fs = "file"
    /\ Len(lastCmd.calls) = 1

\* C3: once initialize() has confirmed the identity it completes and sets the
\* signal, whatever the posts: a post whose time does not parse is skipped
\* (logged, no job), and every other post is registered under the identifier
\* of its position in the file.
C3_BadPostSkippedOthersRegistered ==
    confirmed =>
        /\ failure = "none"
        /\ pc = "start_polling"
        /\ is_ready
        /\ \A i \in 1..Len(cfgFile.posts) :
              IF Parses(cfgFile.posts[i].time)
              THEN /\ \E job \in jobs : job.id = i - 1 /\ job.post = cfgFile.posts[i]
                   /\ (i - 1) \notin schedLog
              ELSE /\ ~\E job \in jobs : job.id = i - 1
                   /\ (i - 1) \in schedLog
        /\ Cardinality(jobs) + Cardinality(schedLog) = Len(cfgFile.posts)

C3_Witness ==
    /\ confirmed
    /\ Len(cfgFile.posts) = 2
    /\ ~Parses(cfgFile.posts[1].time)
    /\ \E job \in jobs : job.id = 1 /\ job.post = cfgFile.posts[2]

\* the datetimes the rules are probed at
Probes ==
    {Strptime(t) : t \in {u \in {<<y, m, d, h, mi>> :
                                   y \in {2024, 2025}, m \in {1, 2},
                                   d \in {15, 16, 22, 31}, h \in {9, 10},
                                   mi \in {30, 45}} : Parses(u)}}

\* C4: the rule of a registered post matches only at the hour and minute of
\* its time; a daily rule matches at that hour and minute of every day, a
\* weekly rule only on the weekday of the time, a monthly rule only on its day
\* of the month.
C4_RuleFollowsRepeat ==
    \A job \in jobs : \A t \in Probes :
        LET post_time == Strptime(job.post.time)
            sameMinute == t.hour = post_time.hour /\ t.minute = post_time.minute
            sameWeekday == Weekday(t.year, t.month, t.day) =
                           Weekday(post_time.year, post_time.month, post_time.day)
        IN  /\ (Fires(job.trigger, t) => sameMinute)
            /\ (job.post.repeat = "daily" => (Fires(job.trigger, t) <=> sameMinute))
            /\ (job.post.repeat = "weekly" =>
                   (Fires(job.trigger, t) <=> sameMinute /\ sameWeekday))
            /\ (job.post.repeat = "monthly" =>
                   (Fires(job.trigger, t) <=> sameMinute /\ t.day = post_time.day))

C4_Witness ==
    /\ \E job \in jobs : job.post.repeat = "weekly" /\ job.post.time = GoodTime
                         /\ Fires(job.trigger, Strptime(<<2024, 1, 22, 9, 30>>))
                         /\ ~Fires(job.trigger, Strptime(<<2024, 1, 16, 9, 30>>))
    /\ \E job \in jobs : job.post.repeat = "monthly" /\ job.post.time = GoodTime
                         /\ Fires(job.trigger, Strptime(<<2025, 2, 15, 9, 30>>))
                         /\ ~Fires(job.trigger, Strptime(<<2024, 1, 22, 9, 30>>))

\* a post that is dispatched once: repeat is "once", missing or not recognized
OnceType(post) == post.repeat \notin {"daily", "weekly", "monthly"}

\* the time text a comes before the time text b
Earlier(a, b) == \E i \in 1..5 : a[i] < b[i] /\ \A k \in 1..(i - 1) : a[k] = b[k]

\* C5, the states: a once-type post whose instant came before the engine
\* was started has no run
NoRunWhenStartedLate ==
    \A j \in PostIds :
        (/\ OnceType(PostWithId(j))
         /\ Parses(PostWithId(j).time)
         /\ startedAt # 0
         /\ Earlier(PostWithId(j).time, Instants[startedAt])) => runs[j] = NoRun

\* C5, the steps: the first run of a once-type post begins at the exact
\* instant of its time, and once it has a run the engine never takes it up again
OnceTypeStep ==
    \A j \in PostIds :
        (OnceType(PostWithId(j)) /\ Parses(PostWithId(j).time)) =>
            /\ (runs[j] = NoRun /\ runs'[j] # NoRun => Instants[now] = PostWithId(j).time)
            /\ (runs[j] # NoRun /\ running /\ running' => nrt'[j] = nrt[j])

\* C5: a post with repeat "once", no repeat or an unrecognized repeat is
\* dispatched at most once in a run of the process, only at the exact instant
\* of its time, and never when the process starts after that instant.
C5_OnceTypeAtMostOnceAtItsInstant ==
    /\ []NoRunWhenStartedLate
    /\ [][OnceTypeStep]_vars

C5_Witness ==
    /\ running
    /\ now = Horizon
    /\ \E j \in PostIds :
          /\ PostWithId(j).repeat = "hourly"
          /\ runs[j].state = "returned"
          /\ runs[j].log = "text_sent"
          /\ nrt[j] = 0

\* C6, the states: no run of _send_post has raised to the engine, and none
\* has issued more than one network call
NoRunRaised ==
    \A j \in JobIds : runs[j].state # "raised" /\ Len(runs[j].calls) <= 1

\* C6, the steps: a run that begins or ends leaves the jobs registered and
\* the engine running
RunKeepsSchedule ==
    \A j \in JobIds :
        (runs'[j] # runs[j] /\ runs'[j].state # "cancelled") =>
            /\ jobs' = jobs
            /\ running' = running
            /\ \A k \in JobIds \ {j} : nrt'[k] = nrt[k]

\* C6: whatever a text send or an image send raises, _send_post returns
\* normally to the trigger engine, the jobs stay registered and the engine
\* running, and no send is made a second time.
C6_DispatchNeverPropagates ==
    /\ []NoRunRaised
    /\ [][RunKeepsSchedule]_vars

C6_Witness ==
    /\ running
    /\ \E job \in jobs :
          /\ runs[job.id].log = "send_post_error"
          /\ runs[job.id].state = "returned"
          /\ Len(runs[job.id].calls) = 1
          /\ nrt[job.id] > now
    /\ \E job \in jobs : runs[job.id].log = "upload_error"

\* C7, the states: a waiting handler has waited no longer than the timeout,
\* and a handler that timed out replied "try again" and sent no image
WaitIsBounded ==
    /\ (handler.pc = "waiting" => handler.waited <= WAIT_TIMEOUT)
    /\ (lastCmd.how = "timeout" =>
          /\ ~lastCmd.ready
          /\ lastCmd.reply = "Bot initializing, try again soon."
          /\ lastCmd.calls = <<>>)

\* C7, the steps: when the timeout has passed with the signal still false,
\* the handler's next step is the "try again" reply, and it ends
TimeoutEndsHandler ==
    (/\ handler.pc = "waiting"
     /\ ~is_ready
     /\ handler.waited >= WAIT_TIMEOUT
     /\ handler' # handler) => (handler' = IdleHandler /\ lastCmd'.how = "timeout")

\* C7: a /sendimage command handled while the signal is false never waits
\* for ever: at the timeout the handler replies "try again", sends no image
\* and ends.
C7_CommandWaitIsBounded ==
    /\ []WaitIsBounded
    /\ [][TimeoutEndsHandler]_vars
    /\ ((handler.pc = "waiting") ~> (handler.pc # "waiting"))

C7_Witness ==
    /\ lastCmd.how = "timeout"
    /\ lastCmd.reply = "Bot initializing, try again soon."
    /\ handler = IdleHandler

\* C8: the image send_default_image uploads goes to the chat the command
\* came from.
C8_ImageGoesToRequester ==
    (lastCmd.how = "send_default_image" /\ lastCmd.calls # <<>>) =>
        lastCmd.calls[1].chat_id = lastCmd.chat

\* C9: however run_bot left its try block, once it has ended with a
\* dispatcher constructed, polling is stopped, the trigger engine is stopped
\* and the readiness signal is false.
C9_ShutdownAlwaysRuns ==
    (pc \in {"done", "exited"} /\ poster) => (~polling /\ ~running /\ ~is_ready)

C9_Witness ==
    /\ pc = "done"
    /\ failure = "cancelled"
    /\ result = "cancelled"
    /\ app = "shut"
    /\ startedAt # 0
    /\ \E j \in JobIds : runs[j].state = "cancelled"

\* C10: a fatal startup error (no bot token, the bot client cannot be
\* constructed) propagates out of run_bot to its caller.
C10_FatalStartupErrorPropagates ==
    (pc \in {"done", "exited"} /\ failure = "build") => result = "raised"

\* C11, the steps: a call of initialize() on a dispatcher without a bot ends
\* raised with "Bot instance not set" and leaves the dispatcher and the
\* engine as they were
InitializeWithoutBotStep ==
    \A c \in Callers :
        (CallInitialize(c) /\ ~bot) =>
            /\ callers'[c] = Raised("initialize", "Bot instance not set")
            /\ confirmed' = confirmed
            /\ jobs' = jobs
            /\ schedLog' = schedLog
            /\ running' = running
            /\ startedAt' = startedAt
            /\ is_ready' = is_ready
            /\ UNCHANGED <<posterVars, schedVars>>

\* C11, the states: while no bot is attached no identity round trip has been
\* made, no trigger is registered, the engine is not started and the
\* readiness signal is false
NothingWithoutBot ==
    ~bot => (~confirmed /\ jobs = {} /\ ~running /\ startedAt = 0 /\ ~is_ready)

\* C11: initialize() called with no bot attached fails with the
\* not-configured error ("Bot instance not set") and changes nothing: no
\* round trip, no trigger, no engine start, readiness still false.
C11_InitializeWithoutBotFails ==
    /\ []NothingWithoutBot
    /\ [][InitializeWithoutBotStep]_vars

C11_Witness ==
    /\ ~bot
    /\ ScheduledPosts(config) # <<>>
    /\ \E c \in Callers : callers[c] = Raised("initialize", "Bot instance not set")
    /\ \E c \in Callers : callers[c] = Suspended("wait_until_ready")
    /\ ~confirmed /\ jobs = {} /\ ~running /\ ~is_ready

\* C12, the steps: a call of shutdown() returns at once without an error,
\* leaves the engine stopped and the readiness signal false, leaves no run
\* of a job in flight, and changes nothing when the engine was stopped and
\* the signal false before it
ShutdownStep ==
    \A c \in Callers :
        CallShutdown(c) =>
            /\ callers'[c] = Returned("shutdown")
            /\ ~running'
            /\ ~is_ready'
            /\ \A j \in JobIds : runs'[j].state # "suspended"
            /\ ((~running /\ ~is_ready) =>
                   /\ UNCHANGED <<posterVars, schedVars>>
                   /\ \A d \in Callers \ {c} : callers'[d] = callers[d])

ShutdownRan ==
    \/ poster /\ pc \in {"fin_updater", "fin_app_stop", "fin_app_shutdown", "done", "exited"}
    \/ startedAt # 0 /\ ~running

\* the place of the dispatcher in Uninitialized (1), Initializing (2),
\* Ready (3), ShuttingDown (4), Stopped (5)
Phase ==
    IF ShutdownRan THEN 5
    ELSE IF poster /\ pc = "finally" THEN 4
    ELSE IF is_ready THEN 3
    ELSE IF pc = "poster_init" THEN 2
    ELSE 1

\* C13, the steps: the dispatcher never moves back, and after shutdown() the
\* signal is not set, no trigger is registered and the engine is not started
LifecycleStep ==
    /\ Phase' >= Phase
    /\ ShutdownRan => (~is_ready' /\ ~running' /\ jobs' = {} /\ startedAt' = startedAt)

\* C13: in a run of the process the dispatcher moves only forward through
\* Uninitialized, Initializing, Ready, ShuttingDown, Stopped: readiness is
\* never true before initialize() has run, and after shutdown() has cleared it
\* it is never true again, no trigger is registered and no engine started.
C13_LifecycleOnlyForward ==
    /\ [](is_ready => (confirmed /\ startedAt # 0 /\ Phase \in {3, 4}))
    /\ [](ShutdownRan => (~is_ready /\ ~running /\ jobs = {}))
    /\ [][LifecycleStep]_vars

C13_Witness ==
    /\ pc = "exited"
    /\ failure = "cancelled"
    /\ confirmed
    /\ startedAt # 0
    /\ Phase = 5
    /\ ~is_ready
    /\ ~running
    /\ \E j \in JobIds : runs[j].state = "returned"

\* the config file cannot be read or used: no file, no JSON, no mapping, or an
\* image_path that is no text
LoadFails(file) == ~file.readable \/ file.image_path = "nontext"

\* C14, the steps: whatever the config file, the construction of the
\* dispatcher in run_bot succeeds
ConstructionSucceeds ==
    (pc = "build" /\ token # "none" /\ pc' # pc) => (poster' /\ pc' = "app_init")

\* C14, the states: after a failed read or parse the config has no post and
\* no default image, and initialize() goes through with it
FallbackIsEmpty ==
    (poster /\ LoadFails(cfgFile)) =>
        /\ config.scheduled_posts = <<>>
        /\ config.image_path = Absent
        /\ (confirmed => (is_ready /\ running /\ jobs = {} /\ failure = "none"))

\* C14: _load_config never fails its caller: on any read or parse error of
\* the config file it returns a config with no scheduled post and no default
\* image, and the dispatcher is constructed and can be initialized.
C14_LoadNeverFails ==
    /\ []FallbackIsEmpty
    /\ [][ConstructionSucceeds]_vars

C14_Witness ==
    /\ ~cfgFile.readable
    /\ poster
    /\ config = FallbackConfig
    /\ confirmed
    /\ is_ready

\* C15: for a config whose scheduled_posts is empty or missing, initialize()
\* with a bot attached and the identity confirmed completes, registers no
\* trigger and sets the readiness signal.
C15_NoPostsStillReady ==
    (confirmed /\ (~config.has_posts \/ config.scheduled_posts = <<>>)) =>
        /\ pc = "start_polling"
        /\ failure = "none"
        /\ jobs = {}
        /\ schedLog = {}
        /\ running
        /\ is_ready

C15_Witness ==
    /\ cfgFile.readable
    /\ ~cfgFile.has_posts
    /\ ~config.has_posts
    /\ confirmed
    /\ pc = "start_polling"
    /\ jobs = {}
    /\ is_ready

\* the image_path of the file gives no default image: it is missing, empty,
\* no text, or does not name a readable regular file
NoValidImage(file) ==
    \/ file.image_path \in {Absent, "", "nontext"}
    \/ file.image_fs # "file"

\* C20: an image_path that is missing, empty, no text or names no readable
\* regular file affects the default image alone: the loaded config has no
\* default image and its scheduled_posts are those of the file, in file order.
C20_BadImagePathKeepsPosts ==
    (poster /\ cfgFile.readable /\ NoValidImage(cfgFile)) =>
        /\ config.image_path = Absent
        /\ ScheduledPosts(config) = (IF cfgFile.has_posts THEN cfgFile.posts ELSE <<>>)

\* C16: a run of _send_post takes one send path, chosen by the key "media":
\* for a post without media it issues exactly one sendMessage, in HTML parse
\* mode, to the configured chat, with the text of the post, and no upload;
\* for a post with media it goes to _send_media, issues at most the one
\* upload and no sendMessage.
C16_OneSendPathByMedia ==
    \A j \in PostIds :
        (runs[j] # NoRun /\ PostWithId(j).text # Absent) =>
            IF PostWithId(j).media = Absent
            THEN /\ Len(runs[j].calls) = 1
                 /\ runs[j].calls[1].api = "sendMessage"
                 /\ runs[j].calls[1].parse_mode = "HTML"
                 /\ runs[j].calls[1].chat_id = ConfiguredChat
                 /\ runs[j].calls[1].body = PostWithId(j).text
                 /\ runs[j].fs = Absent
            ELSE /\ runs[j].fs # Absent
                 /\ Len(runs[j].calls) <= 1
                 /\ \A i \in 1..Len(runs[j].calls) : runs[j].calls[i].api = "sendPhoto"
                 /\ (runs[j].fs = "file" => Len(runs[j].calls) = 1)

C16_Witness ==
    /\ \E j \in PostIds :
          /\ PostWithId(j).media = Absent
          /\ Len(runs[j].calls) = 1
          /\ runs[j].calls[1].api = "sendMessage"
          /\ runs[j].log = "text_sent"
    /\ \E j \in PostIds :
          /\ PostWithId(j).media # Absent
          /\ Len(runs[j].calls) = 1
          /\ runs[j].calls[1].api = "sendPhoto"
          /\ runs[j].log = "media_sent"

\* C17: a run of _send_media that finds no file at its media path issues no
\* network call (no upload, no text send in its place), logs the one error
\* "Media file not found" and returns normally.
C17_MissingMediaSendsNothing ==
    \A j \in JobIds :
        runs[j].fs = "missing" =>
            /\ runs[j].calls = <<>>
            /\ runs[j].log = "media_not_found"
            /\ runs[j].state = "returned"

C17_Witness ==
    \E j \in PostIds :
        /\ PostWithId(j).media = "pic.jpg"
        /\ runs[j].fs = "missing"
        /\ runs[j].calls = <<>>
        /\ runs[j].log = "media_not_found"
        /\ running
        /\ is_ready

\* C18: a caller suspended in wait_until_ready() stays suspended while
\* _is_ready is false: it leaves the wait only in the step of initialize()
\* that sets the event.  That one set releases every caller waiting at that
\* moment, however many there are, and each released caller goes on to return
\* from wait_until_ready().
WaitersStaySuspended ==
    \A c \in Callers : callers[c].state = "suspended" => ~is_ready

WaitersReleasedStep ==
    /\ \A c \in Callers :
          (callers[c].state = "suspended" /\ callers'[c] # callers[c]) =>
              /\ ~is_ready
              /\ is_ready'
              /\ callers'[c].state = "released"
              /\ callers'[c].op = "wait_until_ready"
    /\ (~is_ready /\ is_ready') =>
          \A c \in Callers :
              callers[c].state = "suspended" => callers'[c].state = "released"

C18_WaitersReleasedBySet ==
    /\ []WaitersStaySuspended
    /\ [][WaitersReleasedStep]_vars
    /\ \A c \in Callers :
          (callers[c].state = "released") ~> (callers[c] = Returned("wait_until_ready"))

C18_Witness ==
    /\ is_ready
    /\ \E c \in Callers : callers[c] = Returned("initialize")
    /\ Cardinality({c \in Callers : callers[c].state = "released"}) >= 2

\* the engine starts a run of _send_post for job j in this step
DispatchBegins(j) ==
    /\ ProcessJob(j)
    /\ Fires(JobWithId(j).trigger, At(now))
    /\ j \notin Inflight

\* C19, the steps: whatever else the event loop runs in between (commands
\* and their handlers, initialize(), the finally block with shutdown()), a
\* run of _send_post begins only in a state where _is_ready is set, and
\* leaves it set.
DispatchBeginsReadyStep ==
    \A j \in JobIds :
        (DispatchBegins(j) \/ (runs'[j] # runs[j] /\ runs[j].state # "suspended")) =>
            /\ is_ready
            /\ is_ready'
            /\ running

\* C19, the states: a run exists only once initialize() has finished, and
\* after shutdown() cleared the signal no run is left suspended.
NoRunOutsideReadiness ==
    /\ (\E j \in JobIds : runs[j] # NoRun) => (confirmed /\ startedAt # 0)
    /\ ~is_ready => Inflight = {}

C19_DispatchOnlyWhileReady ==
    /\ []NoRunOutsideReadiness
    /\ [][DispatchBeginsReadyStep]_vars

C19_Witness ==
    /\ ~is_ready
    /\ ShutdownRan
    /\ \E j \in JobIds : runs[j].state \in {"returned", "cancelled"}
    /\ lastCmd.how = "send_default_image"
    /\ \E j \in JobIds : nrt[j] = 0 /\ runs[j] # NoRun

====
